---- MODULE Spec2Model ----
(***************************************************************************)
(* Shairport Sync metadata server (shairport-metadata-server/server.py):   *)
(* the MQTT callback on_message folds (topic, payload) events into the     *)
(* module-level dict `metadata`, which the Flask route get_metadata        *)
(* serialises on request.  on_message runs on the MQTT thread and          *)
(* get_metadata on the HTTP server's threads; the code takes no lock, so   *)
(* each store into the dict is one atomic step and a read may fall between *)
(* any two of them.                                                        *)
(*                                                                         *)
(* Representation: a bytes value is a sequence of integers 0..255, a str   *)
(* is the sequence of its code points, Python's None is None and a str in  *)
(* an optional field is Some(str).                                         *)
(***************************************************************************)
EXTENDS Integers, Sequences, FiniteSets, TLC

VARIABLES
    metadata,   \* the module-level dict `metadata`
    pc,         \* on_message: 0 when not running, else the index of the next statement of the chosen branch
    msg,        \* the message on_message is handling, or handled last
    pre,        \* history: `metadata` when on_message was entered for msg
    log,        \* the logger calls made for msg so far, as their levels
    escaped,    \* TRUE once an exception has left on_message
    nEvents,    \* number of messages delivered so far
    failed,     \* history: number of messages whose handling raised an exception
    snapshot,   \* the response of get_metadata when the last step was a request, else NoSnapshot
    hist,       \* history (SpecHist only): the states `metadata` had between events
    delivered,  \* history (SpecLife only): the messages delivered so far, in order
    mqtt,       \* run_mqtt_client's thread: where the client stands with the broker
    request,    \* the route of the HTTP request waiting for its response, "" when none
    plugin      \* the display plugin: its settings and what _get_metadata returned

vars == <<metadata, pc, msg, pre, log, escaped, nEvents, failed, snapshot, hist,
          delivered, mqtt, request, plugin>>

\* The server's variables that on_message and get_metadata do not set.
serverRest == <<delivered, mqtt, request, plugin>>

coreState == <<metadata, pc, msg, pre, log, escaped, nEvents, failed>>

\* Bounds of the model.
MaxEvents == 2
MaxHistEvents == 2
MaxLifeEvents == 4

-----------------------------------------------------------------------------
\* Values

None == <<>>
Some(s) == <<s>>

\* The outcome of evaluating an expression: a value, or a raised exception.
Ok(v) == [exc |-> "", v |-> v]
Raise(cls) == [exc |-> cls, v |-> <<>>]

\* Python's built-in exception hierarchy and that of requests, as far as
\* on_message and the plugin meet them.
BaseOf(cls) ==
    CASE cls = "UnicodeDecodeError" -> "UnicodeError"
      [] cls = "UnicodeError" -> "ValueError"
      [] cls = "ValueError" -> "Exception"
      [] cls = "ConnectionError" -> "RequestException"
      [] cls = "Timeout" -> "RequestException"
      [] cls = "JSONDecodeError" -> "RequestException"
      [] cls = "RequestException" -> "OSError"
      [] cls = "OSError" -> "Exception"
      [] cls = "Exception" -> "BaseException"
      [] OTHER -> ""

RECURSIVE issubclass(_, _)
issubclass(cls, of) ==
    IF cls = "" \/ of = "" THEN FALSE
    ELSE IF cls = of THEN TRUE
    ELSE issubclass(BaseOf(cls), of)

-----------------------------------------------------------------------------
\* bytes.decode("utf-8"), strict: the code points, or UnicodeDecodeError.

SeqLen(b1) ==
    IF b1 < 128 THEN 1
    ELSE IF b1 \in 194..223 THEN 2
    ELSE IF b1 \in 224..239 THEN 3
    ELSE IF b1 \in 240..244 THEN 4
    ELSE 0

\* The second byte's range excludes overlong forms, surrogates and > U+10FFFF.
SecondOk(b1, b2) ==
    CASE b1 = 224 -> b2 \in 160..191
      [] b1 = 237 -> b2 \in 128..159
      [] b1 = 240 -> b2 \in 144..191
      [] b1 = 244 -> b2 \in 128..143
      [] OTHER -> b2 \in 128..191

ContinuationOk(b, n) ==
    /\ Len(b) >= n
    /\ n >= 2 => SecondOk(b[1], b[2])
    /\ \A i \in 3..n : b[i] \in 128..191

CodePoint(b, n) ==
    CASE n = 1 -> b[1]
      [] n = 2 -> (b[1] - 192) * 64 + (b[2] - 128)
      [] n = 3 -> (b[1] - 224) * 4096 + (b[2] - 128) * 64 + (b[3] - 128)
      [] n = 4 -> (b[1] - 240) * 262144 + (b[2] - 128) * 4096
                    + (b[3] - 128) * 64 + (b[4] - 128)

RECURSIVE decode(_)
decode(b) ==
    IF b = <<>> THEN Ok(<<>>)
    ELSE LET n == SeqLen(b[1]) IN
         IF n = 0 \/ ~ContinuationOk(b, n) THEN Raise("UnicodeDecodeError")
         ELSE LET rest == decode(SubSeq(b, n + 1, Len(b))) IN
              IF rest.exc # "" THEN rest
              ELSE Ok(<<CodePoint(b, n)>> \o rest.v)

-----------------------------------------------------------------------------
\* float(str).  Exact on the strings the model's payloads decode to: a
\* non-empty run of ASCII digits is its decimal value, any other string of
\* the payload alphabet (empty, or holding "X" or U+00E9) is a ValueError.

IsDigit(c) == c \in 48..57

RECURSIVE DecimalValue(_)
DecimalValue(s) ==
    IF s = <<>> THEN 0
    ELSE 10 * DecimalValue(SubSeq(s, 1, Len(s) - 1)) + (s[Len(s)] - 48)

float(r) ==
    IF r.exc # "" THEN r
    ELSE IF r.v # <<>> /\ \A i \in 1..Len(r.v) : IsDigit(r.v[i])
         THEN Ok(DecimalValue(r.v))
    ELSE Raise("ValueError")

-----------------------------------------------------------------------------
\* base64.b64encode(bytes): the standard alphabet with "=" padding, as bytes.

B64Char(i) ==
    IF i < 26 THEN 65 + i
    ELSE IF i < 52 THEN 97 + (i - 26)
    ELSE IF i < 62 THEN 48 + (i - 52)
    ELSE IF i = 62 THEN 43
    ELSE 47

RECURSIVE b64encode(_)
b64encode(b) ==
    IF b = <<>> THEN <<>>
    ELSE LET n  == IF Len(b) >= 3 THEN 3 ELSE Len(b)
             b1 == b[1]
             b2 == IF n >= 2 THEN b[2] ELSE 0
             b3 == IF n >= 3 THEN b[3] ELSE 0
             c1 == B64Char(b1 \div 4)
             c2 == B64Char((b1 % 4) * 16 + b2 \div 16)
             c3 == IF n >= 2 THEN B64Char((b2 % 16) * 4 + b3 \div 64) ELSE 61
             c4 == IF n >= 3 THEN B64Char(b3 % 64) ELSE 61
         IN <<c1, c2, c3, c4>> \o b64encode(SubSeq(b, n + 1, Len(b)))

-----------------------------------------------------------------------------
\* The state and the messages

\* The dict literal bound to `metadata` at import.
DefaultMetadata ==
    [ title          |-> <<>>,
      artist         |-> <<>>,
      album          |-> <<>>,
      genre          |-> <<>>,
      artwork_base64 |-> None,
      is_playing     |-> FALSE,
      player_state   |-> "stopped",
      volume         |-> 0,
      client_name    |-> <<>> ]

\* --topic-prefix / TOPIC_PREFIX, at its default.
topic_prefix == "shairport-sync"

\* The relative topics on_message has a branch for.
ActionTopics ==
    { "artist", "title", "album", "genre", "cover", "artwork",
      "play_start", "play_resume", "play_end", "play_flush", "pause",
      "volume", "client_name", "active_start", "active_end" }

\* Raw topics delivered: every branch's topic under the prefix, and topics
\* that are unknown, outside the prefix, or the prefix with no "/" after it.
Topics ==
    { topic_prefix \o "/" \o t : t \in ActionTopics }
      \cup { topic_prefix \o "/unknown", topic_prefix, "title", "other/title",
             topic_prefix \o "Xtitle" }

\* Payloads delivered: b"", b"5", b"50", b"X", b"\xff" (not UTF-8) and
\* b"\xc3\xa9" (U+00E9).
Payloads == { <<>>, <<53>>, <<53, 48>>, <<88>>, <<255>>, <<195, 169>> }

Messages == [topic : Topics, payload : Payloads]

NoSnapshot == [status |-> 0, route |-> "", json |-> DefaultMetadata]

\* A dict without keys.
EmptyDict == [k \in {} |-> TRUE]

\* No answer of the metadata service.
NoResponse == [raised |-> "", status_code |-> 0, json |-> Ok(EmptyDict)]

\* The plugin before generate_image is called.
NoPlugin ==
    [called |-> FALSE, settings |-> EmptyDict, response |-> NoResponse,
     returned |-> Ok(EmptyDict), warned |-> FALSE, template_params |-> None]

-----------------------------------------------------------------------------
\* on_message: the statements

startswith(s, p) == Len(s) >= Len(p) /\ SubSeq(s, 1, Len(p)) = p

\* relative_topic that drops a topic outside the prefix.
relative_topic_DropsForeign(topic) ==
    IF startswith(topic, topic_prefix)
    THEN SubSeq(topic, Len(topic_prefix) + 2, Len(topic))
    ELSE ""

\* topic[len(topic_prefix) + 1:] if topic.startswith(topic_prefix) else topic
relative_topic(topic) ==
    IF startswith(topic, topic_prefix)
    THEN SubSeq(topic, Len(topic_prefix) + 2, Len(topic))
    ELSE topic

\* The statements of a branch: a store into metadata of an expression's
\* outcome (inside an inner try that catches `catch`, if any), or a logger call.
Store(line, field, val) ==
    [line |-> line, kind |-> "store", field |-> field, val |-> val,
     catch |-> "", level |-> ""]
TryStore(line, field, val, cls) ==
    [line |-> line, kind |-> "store", field |-> field, val |-> val,
     catch |-> cls, level |-> ""]
LogCall(line, level) ==
    [line |-> line, kind |-> "log", field |-> "", val |-> Ok(<<>>),
     catch |-> "", level |-> level]

\* TextBranch with every branch storing under the key of the first one copied.
TextBranch_CopiedKey(line, field, payload) ==
    << Store(line, "artist", decode(payload)), LogCall(line + 1, "debug") >>

\* artist, title, album, genre, client_name:
\*   metadata[field] = msg.payload.decode("utf-8"); logger.debug(...)
TextBranch(line, field, payload) ==
    << Store(line, field, decode(payload)), LogCall(line + 1, "debug") >>

\* ArtworkBranch that ignores an empty payload instead of clearing.
ArtworkBranch_NeverClears(payload) ==
    IF payload # <<>>
    THEN << Store(89, "artwork_base64",
                  LET r == decode(b64encode(payload))
                  IN  IF r.exc # "" THEN r ELSE Ok(Some(r.v))),
            LogCall(90, "debug") >>
    ELSE << LogCall(93, "debug") >>

\* cover, artwork
ArtworkBranch(payload) ==
    IF payload # <<>>
    THEN << Store(89, "artwork_base64",
                  LET r == decode(b64encode(payload))
                  IN  IF r.exc # "" THEN r ELSE Ok(Some(r.v))),
            LogCall(90, "debug") >>
    ELSE << Store(92, "artwork_base64", Ok(None)), LogCall(93, "debug") >>

\* PlayBranch without the store of player_state.
PlayBranch_FlagOnly ==
    << Store(96, "is_playing", Ok(TRUE)),
       LogCall(98, "info") >>

\* play_start, play_resume
PlayBranch ==
    << Store(96, "is_playing", Ok(TRUE)),
       Store(97, "player_state", Ok("playing")),
       LogCall(98, "info") >>

\* StopBranch with the store of line 104 left out.
StopBranch_KeepsTitle ==
    << Store(101, "is_playing", Ok(FALSE)),
       Store(102, "player_state", Ok("stopped")),
       Store(105, "artist", Ok(<<>>)),
       Store(106, "album", Ok(<<>>)),
       Store(107, "artwork_base64", Ok(None)),
       LogCall(108, "info") >>

\* play_end, play_flush
StopBranch ==
    << Store(101, "is_playing", Ok(FALSE)),
       Store(102, "player_state", Ok("stopped")),
       Store(104, "title", Ok(<<>>)),
       Store(105, "artist", Ok(<<>>)),
       Store(106, "album", Ok(<<>>)),
       Store(107, "artwork_base64", Ok(None)),
       LogCall(108, "info") >>

\* PauseBranch that clears the track like a stop.
PauseBranch_Clears ==
    << Store(111, "is_playing", Ok(FALSE)),
       Store(112, "player_state", Ok("paused")),
       Store(112, "title", Ok(<<>>)),
       Store(112, "artist", Ok(<<>>)),
       Store(112, "album", Ok(<<>>)),
       Store(112, "artwork_base64", Ok(None)),
       LogCall(113, "info") >>

\* pause
PauseBranch ==
    << Store(111, "is_playing", Ok(FALSE)),
       Store(112, "player_state", Ok("paused")),
       LogCall(113, "info") >>

\* VolumeBranch with a handler that resets the volume instead of passing.
VolumeBranch_ResetOnError(payload) ==
    << Store(117, "volume",
             LET r == float(decode(payload)) IN IF r.exc # "" THEN Ok(0) ELSE r) >>

\* volume: try: metadata["volume"] = float(...) except ValueError: pass
VolumeBranch(payload) ==
    << TryStore(117, "volume", float(decode(payload)), "ValueError") >>

\* ActiveStartBranch taking a session start for a playback start.
ActiveStartBranch_Plays ==
    << LogCall(126, "info"),
       Store(126, "is_playing", Ok(TRUE)),
       Store(126, "player_state", Ok("playing")) >>

\* active_start
ActiveStartBranch == << LogCall(126, "info") >>

\* active_end
ActiveEndBranch ==
    << LogCall(129, "info"),
       Store(130, "is_playing", Ok(FALSE)),
       Store(131, "player_state", Ok("stopped")),
       Store(132, "title", Ok(<<>>)),
       Store(133, "artist", Ok(<<>>)),
       Store(134, "album", Ok(<<>>)),
       Store(135, "artwork_base64", Ok(None)) >>

\* Branch with play_start taken for the start of a new track: it clears the
\* title and the artist before it sets the flags.
Branch_PlayStartClearsTrack(rt, payload) ==
    CASE rt = "artist" -> TextBranch(71, "artist", payload)
      [] rt = "title" -> TextBranch(75, "title", payload)
      [] rt = "album" -> TextBranch(79, "album", payload)
      [] rt = "genre" -> TextBranch(83, "genre", payload)
      [] rt = "cover" \/ rt = "artwork" -> ArtworkBranch(payload)
      [] rt = "play_start" ->
            << Store(96, "title", Ok(<<>>)), Store(96, "artist", Ok(<<>>)) >>
            \o PlayBranch
      [] rt = "play_resume" -> PlayBranch
      [] rt = "play_end" \/ rt = "play_flush" -> StopBranch
      [] rt = "pause" -> PauseBranch
      [] rt = "volume" -> VolumeBranch(payload)
      [] rt = "client_name" -> TextBranch(122, "client_name", payload)
      [] rt = "active_start" -> ActiveStartBranch
      [] rt = "active_end" -> ActiveEndBranch
      [] OTHER -> << >>

\* The if/elif chain of the try block: the statements of the branch taken
\* for a relative topic, in source order; none when no branch matches.
Branch(rt, payload) ==
    CASE rt = "artist" -> TextBranch(71, "artist", payload)
      [] rt = "title" -> TextBranch(75, "title", payload)
      [] rt = "album" -> TextBranch(79, "album", payload)
      [] rt = "genre" -> TextBranch(83, "genre", payload)
      [] rt = "cover" \/ rt = "artwork" -> ArtworkBranch(payload)
      [] rt = "play_start" \/ rt = "play_resume" -> PlayBranch
      [] rt = "play_end" \/ rt = "play_flush" -> StopBranch
      [] rt = "pause" -> PauseBranch
      [] rt = "volume" -> VolumeBranch(payload)
      [] rt = "client_name" -> TextBranch(122, "client_name", payload)
      [] rt = "active_start" -> ActiveStartBranch
      [] rt = "active_end" -> ActiveEndBranch
      [] OTHER -> << >>

Body(m) == Branch(relative_topic(m.topic), m.payload)

\* OuterCatch narrowed to a class the decoding errors are not under.
OuterCatch_KeyError == "KeyError"

\* The class the outer handler catches: `except Exception as e`.
OuterCatch == "Exception"

\* What executing statement s does: a logger call, a store, or a raise that
\* the inner handler passes over ("pass"), that the outer handler logs
\* ("except"), or that leaves on_message ("escape").
Outcome(s) ==
    IF s.kind = "log" THEN "log"
    ELSE IF s.val.exc = "" THEN "store"
    ELSE IF issubclass(s.val.exc, s.catch) THEN "pass"
    ELSE IF issubclass(s.val.exc, OuterCatch) THEN "except"
    ELSE "escape"

\* Effect with pause as a toggle: pausing a paused player resumes it.
Effect_PauseToggles(md, s) ==
    IF Outcome(s) # "store" THEN md
    ELSE IF s.field = "player_state" /\ s.val.v = "paused"
            /\ md.player_state = "paused"
         THEN [md EXCEPT !.player_state = "playing"]
    ELSE [md EXCEPT ![s.field] = s.val.v]

\* metadata after statement s: only a store whose right-hand side evaluates
\* changes it, and only at its key.
Effect(md, s) ==
    IF Outcome(s) = "store" THEN [md EXCEPT ![s.field] = s.val.v] ELSE md

\* on_message run from statement i of body to its return, with no other
\* thread in between.
RECURSIVE Run(_, _, _)
Run(md, body, i) ==
    IF i > Len(body) THEN md
    ELSE IF Outcome(body[i]) \in {"except", "escape"} THEN md
    ELSE Run(Effect(md, body[i]), body, i + 1)

Applied(md, m) == Run(md, Body(m), 1)

-----------------------------------------------------------------------------
\* on_message and get_metadata: the steps

\* The statement on_message is about to execute, and where it goes next.
Stmt == Body(msg)[pc]
NextPc == IF pc = Len(Body(msg)) THEN 0 ELSE pc + 1

\* on_message is called with m: the topic is made relative and the try
\* block entered.
on_message(m) ==
    /\ pc = 0
    /\ ~escaped
    /\ msg' = m
    /\ pre' = metadata
    /\ log' = <<>>
    /\ nEvents' = nEvents + 1
    /\ pc' = IF Body(m) = <<>> THEN 0 ELSE 1
    /\ snapshot' = NoSnapshot
    /\ UNCHANGED <<metadata, escaped, failed>>

\* metadata[field] = value, for a value whose evaluation succeeds.
on_message_store ==
    /\ pc > 0
    /\ Outcome(Stmt) = "store"
    /\ metadata' = Effect(metadata, Stmt)
    /\ pc' = NextPc
    /\ snapshot' = NoSnapshot
    /\ UNCHANGED <<msg, pre, log, escaped, nEvents, failed>>

\* The right-hand side raises: nothing is stored.  An inner `except` that
\* matches passes; else the outer handler logs the error; else the
\* exception leaves on_message.
on_message_raise ==
    /\ pc > 0
    /\ Outcome(Stmt) \in {"pass", "except", "escape"}
    /\ metadata' = Effect(metadata, Stmt)
    /\ pc' = IF Outcome(Stmt) = "pass" THEN NextPc ELSE 0
    /\ log' = IF Outcome(Stmt) = "except" THEN Append(log, "error") ELSE log
    /\ escaped' = (Outcome(Stmt) = "escape")
    /\ failed' = failed + 1
    /\ snapshot' = NoSnapshot
    /\ UNCHANGED <<msg, pre, nEvents>>

\* logger.debug(...) / logger.info(...) inside a branch.
on_message_log ==
    /\ pc > 0
    /\ Outcome(Stmt) = "log"
    /\ log' = Append(log, Stmt.level)
    /\ pc' = NextPc
    /\ snapshot' = NoSnapshot
    /\ UNCHANGED <<metadata, msg, pre, escaped, nEvents, failed>>

\* What jsonify(metadata) reads: the dict's items, taken in one step.
jsonify(md) == md

\* get_metadata answering from a copy taken when the last event began.
get_metadata_Cached ==
    /\ snapshot' = [status |-> 200, route |-> "/metadata", json |-> jsonify(pre)]
    /\ UNCHANGED coreState

\* GET /metadata
get_metadata ==
    /\ snapshot' = [status |-> 200, route |-> "/metadata", json |-> jsonify(metadata)]
    /\ UNCHANGED <<metadata, pc, msg, pre, log, escaped, nEvents, failed>>

-----------------------------------------------------------------------------
\* Specifications

Init ==
    /\ metadata = DefaultMetadata
    /\ pc = 0
    /\ msg = [topic |-> "", payload |-> <<>>]
    /\ pre = DefaultMetadata
    /\ log = <<>>
    /\ escaped = FALSE
    /\ nEvents = 0
    /\ failed = 0
    /\ snapshot = NoSnapshot
    /\ hist = {DefaultMetadata}
    /\ delivered = <<>>
    /\ mqtt = "subscribed"
    /\ request = ""
    /\ plugin = NoPlugin

\* The event and query paths of a client that is connected and subscribed.
Next ==
    \/ \E m \in Messages :
          nEvents < MaxEvents /\ on_message(m) /\ UNCHANGED <<hist, serverRest>>
    \/ on_message_store /\ UNCHANGED <<hist, serverRest>>
    \/ on_message_raise /\ UNCHANGED <<hist, serverRest>>
    \/ on_message_log /\ UNCHANGED <<hist, serverRest>>
    \/ get_metadata /\ UNCHANGED <<hist, serverRest>>

Spec == Init /\ [][Next]_vars

\* The same steps, recording in hist every state metadata has when an
\* event has been applied in full.
Record == hist' = IF pc' = 0 THEN hist \cup {metadata'} ELSE hist

NextHist ==
    \/ \E m \in Messages :
          on_message(m) /\ nEvents < MaxHistEvents /\ Record /\ UNCHANGED serverRest
    \/ on_message_store /\ Record /\ UNCHANGED serverRest
    \/ on_message_raise /\ Record /\ UNCHANGED serverRest
    \/ on_message_log /\ Record /\ UNCHANGED serverRest
    \/ get_metadata /\ Record /\ UNCHANGED serverRest

SpecHist == Init /\ [][NextHist]_vars

-----------------------------------------------------------------------------
\* The MQTT thread's connection and the HTTP requests

\* run_mqtt_client: client.connect(host, port, 60) returns and
\* loop_forever starts, or it raises, the error is logged and the thread
\* ends.
run_mqtt_client(connects) ==
    /\ mqtt = "starting"
    /\ mqtt' = IF connects THEN "connecting" ELSE "dead"
    /\ snapshot' = NoSnapshot
    /\ UNCHANGED coreState

\* on_connect: rc 0 subscribes to topic_prefix/#, any other rc is logged.
\* The client's callbacks run one at a time on the MQTT thread.
on_connect(rc) ==
    /\ mqtt = "connecting"
    /\ pc = 0
    /\ mqtt' = IF rc = 0 THEN "subscribed" ELSE "refused"
    /\ snapshot' = NoSnapshot
    /\ UNCHANGED coreState

\* on_disconnect_Resets: on_disconnect taking the loss of the broker for
\* the end of playback.
on_disconnect_Resets(rc) ==
    /\ mqtt \in {"subscribed", "refused"}
    /\ pc = 0
    /\ mqtt' = "disconnected"
    /\ metadata' = DefaultMetadata
    /\ snapshot' = NoSnapshot
    /\ UNCHANGED <<pc, msg, pre, log, escaped, nEvents, failed>>

\* on_disconnect: logs a warning.
on_disconnect(rc) ==
    /\ mqtt \in {"subscribed", "refused"}
    /\ pc = 0
    /\ mqtt' = "disconnected"
    /\ snapshot' = NoSnapshot
    /\ UNCHANGED coreState

\* loop_forever connects again after a disconnect.
loop_forever_reconnect ==
    /\ mqtt = "disconnected"
    /\ mqtt' = "connecting"
    /\ snapshot' = NoSnapshot
    /\ UNCHANGED coreState

\* A request reaches the Flask server started by app.run.
http_request(route) ==
    /\ request = ""
    /\ request' = route
    /\ snapshot' = NoSnapshot
    /\ UNCHANGED coreState

\* CanServe with the MQTT client run in the foreground: app.run is reached
\* only once run_mqtt_client has returned.
CanServe_AfterMqttReturns(route) == request = route /\ mqtt = "dead"

\* A request is handled on a thread of the HTTP server; the MQTT client
\* runs on its own daemon thread, so no state of it holds the handler back.
CanServe(route) == request = route

\* GET /health
health ==
    /\ snapshot' = [status |-> 200, route |-> "/health", json |-> [status |-> "ok"]]
    /\ UNCHANGED coreState

ServeMetadata ==
    /\ CanServe("/metadata")
    /\ get_metadata
    /\ request' = ""
    /\ UNCHANGED <<hist, delivered, mqtt, plugin>>

ServeHealth ==
    /\ CanServe("/health")
    /\ health
    /\ request' = ""
    /\ UNCHANGED <<hist, delivered, mqtt, plugin>>

\* The payloads b"Song A" and b"Band B".
SongA == <<83, 111, 110, 103, 32, 65>>
BandB == <<66, 97, 110, 100, 32, 66>>

Under(t) == topic_prefix \o "/" \o t

\* The messages the broker delivers in SpecLife.
LifeMessages ==
    { [topic |-> Under("title"), payload |-> SongA],
      [topic |-> Under("artist"), payload |-> BandB],
      [topic |-> Under("play_start"), payload |-> <<>>],
      [topic |-> Under("play_resume"), payload |-> <<>>],
      [topic |-> Under("play_end"), payload |-> <<>>],
      [topic |-> Under("title"), payload |-> <<255>>] }

\* The process from main on: the MQTT thread connects, subscribes, loses
\* and regains the broker and delivers messages while subscribed; the HTTP
\* server takes requests and answers them.
InitLife ==
    /\ metadata = DefaultMetadata
    /\ pc = 0
    /\ msg = [topic |-> "", payload |-> <<>>]
    /\ pre = DefaultMetadata
    /\ log = <<>>
    /\ escaped = FALSE
    /\ nEvents = 0
    /\ failed = 0
    /\ snapshot = NoSnapshot
    /\ hist = {DefaultMetadata}
    /\ delivered = <<>>
    /\ mqtt = "starting"
    /\ request = ""
    /\ plugin = NoPlugin

NextLife ==
    \/ \E c \in BOOLEAN :
          run_mqtt_client(c) /\ UNCHANGED <<hist, delivered, request, plugin>>
    \/ \E rc \in {0, 5} :
          on_connect(rc) /\ UNCHANGED <<hist, delivered, request, plugin>>
    \/ \E rc \in {0, 7} :
          on_disconnect(rc) /\ UNCHANGED <<hist, delivered, request, plugin>>
    \/ loop_forever_reconnect /\ UNCHANGED <<hist, delivered, request, plugin>>
    \/ \E m \in LifeMessages :
          /\ mqtt = "subscribed"
          /\ nEvents < MaxLifeEvents
          /\ on_message(m)
          /\ delivered' = Append(delivered, m)
          /\ UNCHANGED <<hist, mqtt, request, plugin>>
    \/ on_message_store /\ UNCHANGED <<hist, serverRest>>
    \/ on_message_raise /\ UNCHANGED <<hist, serverRest>>
    \/ on_message_log /\ UNCHANGED <<hist, serverRest>>
    \/ \E r \in {"/metadata", "/health"} :
          http_request(r) /\ UNCHANGED <<hist, delivered, mqtt, plugin>>
    \/ ServeMetadata
    \/ ServeHealth

SpecLife == InitLife /\ [][NextLife]_vars

\* Each handler thread of the HTTP server keeps running once started.
SpecLifeFair == SpecLife /\ WF_vars(ServeMetadata) /\ WF_vars(ServeHealth)

-----------------------------------------------------------------------------
\* The display plugin: ShairportDisplay.generate_image and _get_metadata

\* dict.get(key, default)
get(d, key, default) == IF key \in DOMAIN d THEN d[key] ELSE default

\* The dicts with at most the key k, its value one of vals.
Entry(k, vals) == {EmptyDict} \cup {k :> v : v \in vals}

\* The plugin settings a user may have saved.
Settings ==
    { t @@ a @@ l :
        t \in Entry("default_title", {"Idle"}),
        a \in Entry("default_artist", {"Nobody"}),
        l \in Entry("default_album", {"Nothing"}) }

\* The JSON objects a metadata service may answer with; artwork_base64 may
\* be null, empty or a base64 text.
Datas ==
    { t @@ a @@ l @@ p @@ b @@ u :
        t \in Entry("title", {"", "Song A"}),
        a \in Entry("artist", {"Band B"}),
        l \in Entry("album", {"Album C"}),
        p \in Entry("is_playing", BOOLEAN),
        b \in Entry("artwork_base64", {None, Some(""), Some("QUJD")}),
        u \in Entry("artwork_url", {Some("http://host/cover.jpg")}) }

\* What requests.get(metadata_url, timeout=5) and response.json() can do:
\* the request raises, or a response arrives whose body is a JSON object or
\* is no JSON at all. response.json() then raises requests' JSONDecodeError,
\* or a plain ValueError with a requests older than 2.27.
Responses ==
    {[raised |-> c, status_code |-> 0, json |-> Ok(EmptyDict)] :
        c \in {"ConnectionError", "Timeout"}}
    \cup {[raised |-> "", status_code |-> 200, json |-> Ok(d)] : d \in Datas}
    \cup {[raised |-> "", status_code |-> 200, json |-> Raise(c)] :
        c \in {"JSONDecodeError", "ValueError"}}
    \cup {[raised |-> "", status_code |-> c, json |-> j] :
        c \in {404, 500}, j \in {Ok(EmptyDict), Raise("JSONDecodeError")}}

\* bool(x) of a value that is None or a text.
Truthy(x) == x # None /\ x[1] # ""

\* PluginCatch naming requests.Timeout alone.
PluginCatch_TimeoutOnly == "Timeout"

\* The class named by the except clause of _get_metadata.
PluginCatch == "RequestException"

\* _get_metadata(settings) when the service answers with response: what it
\* returns or raises, and whether it logged the warning.
_get_metadata(settings, response) ==
    LET metadata0 == [title |-> get(settings, "default_title", "Not Playing"),
                      artist |-> get(settings, "default_artist", ""),
                      album |-> get(settings, "default_album", ""),
                      artwork_data |-> None,
                      is_playing |-> FALSE]
        except(cls) ==
            IF issubclass(cls, PluginCatch)
            THEN [returned |-> Ok(metadata0), warned |-> TRUE]
            ELSE [returned |-> Raise(cls), warned |-> FALSE]
    IN  IF response.raised # "" THEN except(response.raised)
        ELSE IF response.status_code # 200
        THEN [returned |-> Ok(metadata0), warned |-> FALSE]
        ELSE IF response.json.exc # "" THEN except(response.json.exc)
        ELSE
            LET data == response.json.v
                artwork_url == get(data, "artwork_url", None)
                artwork_base64 == get(data, "artwork_base64", None)
            IN  [returned |->
                    Ok([title |-> get(data, "title", metadata0.title),
                        artist |-> get(data, "artist", metadata0.artist),
                        album |-> get(data, "album", metadata0.album),
                        is_playing |-> get(data, "is_playing", FALSE),
                        artwork_data |->
                            IF Truthy(artwork_base64)
                            THEN Some("data:image/jpeg;base64," \o artwork_base64[1])
                            ELSE IF Truthy(artwork_url)
                            THEN Some(artwork_url[1])
                            ELSE None]),
                 warned |-> FALSE]

\* generate_image up to the call of render_image.
generate_image(response) ==
    LET r == _get_metadata(plugin.settings, response)
        metadata1 == r.returned.v
    IN  /\ plugin' =
              [called |-> TRUE,
               settings |-> plugin.settings,
               response |-> response,
               returned |-> r.returned,
               warned |-> r.warned,
               template_params |->
                   IF r.returned.exc # "" THEN None
                   ELSE Some([title |-> get(metadata1, "title", "Not Playing"),
                              artist |-> get(metadata1, "artist", ""),
                              album |-> get(metadata1, "album", ""),
                              artwork_data |-> get(metadata1, "artwork_data", None),
                              is_playing |-> get(metadata1, "is_playing", FALSE)])]
        /\ UNCHANGED <<coreState, snapshot, hist, delivered, mqtt, request>>

\* The plugin with any saved settings; each refresh calls generate_image.
InitPlugin ==
    /\ metadata = DefaultMetadata
    /\ pc = 0
    /\ msg = [topic |-> "", payload |-> <<>>]
    /\ pre = DefaultMetadata
    /\ log = <<>>
    /\ escaped = FALSE
    /\ nEvents = 0
    /\ failed = 0
    /\ snapshot = NoSnapshot
    /\ hist = {DefaultMetadata}
    /\ delivered = <<>>
    /\ mqtt = "subscribed"
    /\ request = ""
    /\ plugin \in {[NoPlugin EXCEPT !.settings = s] : s \in Settings}

NextPlugin == \E response \in Responses : generate_image(response)

SpecPlugin == InitPlugin /\ [][NextPlugin]_vars

-----------------------------------------------------------------------------
\* Vocabulary of the properties

\* An event has been applied in full and no other has started.
EventDone == pc = 0 /\ nEvents > 0

\* The relative topic of the current (or last) message.
Topic == relative_topic(msg.topic)

\* get_metadata has just answered.
Answered == snapshot.status = 200 /\ snapshot.route = "/metadata"

Fields == DOMAIN DefaultMetadata

StopTopics == {"play_end", "play_flush", "active_end"}

\* The topics whose branch decodes the payload as UTF-8 text.
DecodingTopics == {"artist", "title", "album", "genre", "client_name", "volume"}

\* The payloads of the model that are not valid UTF-8.
NotUtf8 == { <<255>> }

Cleared(md) ==
    /\ md.title = <<>>
    /\ md.artist = <<>>
    /\ md.album = <<>>
    /\ md.artwork_base64 = None
    /\ md.is_playing = FALSE
    /\ md.player_state = "stopped"

\* The fields the action table names for a relative topic.
Row(rt) ==
    CASE rt \in {"artist", "title", "album", "genre", "client_name", "volume"} -> {rt}
      [] rt \in {"cover", "artwork"} -> {"artwork_base64"}
      [] rt \in {"play_start", "play_resume", "pause"} -> {"is_playing", "player_state"}
      [] rt \in StopTopics ->
           {"is_playing", "player_state", "title", "artist", "album", "artwork_base64"}
      [] OTHER -> {}

ErrorRecords(l) == Cardinality({i \in 1..Len(l) : l[i] = "error"})

-----------------------------------------------------------------------------
\* C1: once a play_end, play_flush or active_end event has been applied in
\* full, the state, and a /metadata snapshot taken before any further event,
\* has empty title, artist and album, no artwork, is_playing false and
\* player_state "stopped", whatever the state was before.
C1_StopClears ==
    (EventDone /\ Topic \in StopTopics) =>
        /\ Cleared(metadata)
        /\ Answered => Cleared(snapshot.json)

C1_Witness ==
    /\ EventDone
    /\ Topic = "play_end"
    /\ pre.title # <<>>
    /\ Answered

\* C2: every snapshot get_metadata returns has is_playing true exactly when
\* player_state is "playing", also when it is taken in the middle of an event.
C2_SnapshotPlayingIffState ==
    Answered => (snapshot.json.is_playing = (snapshot.json.player_state = "playing"))

\* C3: no snapshot shows player_state "stopped" together with a non-empty
\* title, however the reads interleave with the events.
C3_NoStoppedWithTitle ==
    Answered => ~(snapshot.json.player_state = "stopped" /\ snapshot.json.title # <<>>)

\* C4: every snapshot is the state after a whole number of the delivered
\* events: one of the states recorded between events, or the state the
\* event in progress leaves once applied in full; never a state in which
\* only some of an event's stores have been made.
C4_SnapshotIsPrefixState ==
    Answered => snapshot.json \in (hist \cup {Applied(pre, msg)})

\* C5: an event changes only the fields its row of the action table names;
\* every other field keeps the value it had before the event.
C5_OnlyRowFieldsChange ==
    EventDone => \A f \in Fields \ Row(Topic) : metadata[f] = pre[f]

C5_Witness ==
    /\ EventDone
    /\ Topic = "volume"
    /\ pre.title = <<88>>
    /\ metadata.title = <<88>>
    /\ metadata.volume = 50

\* C6: pause is idempotent: from every state reached between events, pause
\* applied twice gives the state pause applied once gives; and the state a
\* pause event has just produced is the state a second pause produces.
C6_PauseIdempotent ==
    /\ pc = 0 =>
         \A m \in Messages :
             relative_topic(m.topic) = "pause" =>
                 Applied(Applied(metadata, m), m) = Applied(metadata, m)
    /\ (EventDone /\ Topic = "pause") =>
         /\ Applied(metadata, msg) = metadata
         /\ pre.player_state = "paused" => metadata = pre

\* Two events, the second a pause applied to a paused state: both are pauses.
C6_Witness ==
    /\ EventDone
    /\ nEvents = 2
    /\ Topic = "pause"
    /\ pre.player_state = "paused"
    /\ metadata = pre

\* C7: a volume event whose payload does not parse as a number leaves
\* volume and every other field unchanged and no exception leaves
\* on_message; one whose payload parses sets volume to the parsed value.
C7_Volume ==
    /\ ~escaped
    /\ (EventDone /\ Topic = "volume") =>
         CASE msg.payload = <<53>> -> metadata = [pre EXCEPT !.volume = 5]
           [] msg.payload = <<53, 48>> -> metadata = [pre EXCEPT !.volume = 50]
           [] OTHER -> metadata = pre

C7_Witness ==
    /\ EventDone
    /\ Topic = "volume"
    /\ msg.payload = <<88>>
    /\ pre.volume = 50
    /\ metadata.volume = 50

\* C8: an event whose payload fails UTF-8 decoding has its whole effect
\* dropped: the state after it is the state before it, no exception leaves
\* on_message, and the events after a failed one have the effect they
\* have when run alone from the state they find.
C8_MalformedDropped ==
    /\ ~escaped
    /\ (EventDone /\ Topic \in DecodingTopics /\ msg.payload \in NotUtf8) =>
         metadata = pre
    /\ (EventDone /\ failed > 0) => metadata = Applied(pre, msg)

C8_Witness ==
    /\ EventDone
    /\ Topic = "title"
    /\ msg.payload \in NotUtf8
    /\ pre.title = <<88>>
    /\ metadata.title = <<88>>
    /\ failed = 1

\* C9: for each of the topics artist, title, album, genre, client_name and
\* volume, an event whose payload is not valid UTF-8 produces exactly one
\* error log record.
C9_DecodeFailureLoggedOnce ==
    (EventDone /\ Topic \in DecodingTopics /\ msg.payload \in NotUtf8) =>
        ErrorRecords(log) = 1

\* C10: an event whose relative topic is not in the action table, and an
\* active_start event, leave every field unchanged and produce no error,
\* whatever the payload.
C10_NoEffect ==
    (EventDone /\ (Topic \notin ActionTopics \/ Topic = "active_start")) =>
        /\ metadata = pre
        /\ ~escaped
        /\ ErrorRecords(log) = 0

C10_Witness ==
    /\ EventDone
    /\ Topic = "active_start"
    /\ msg.payload \in NotUtf8
    /\ pre.player_state = "playing"
    /\ metadata = pre

\* The base64 text of the model's non-empty payloads: "NQ==", "NTA=",
\* "WA==", "/w==" and "w6k=".
ExpectedBase64(payload) ==
    CASE payload = <<53>> -> <<78, 81, 61, 61>>
      [] payload = <<53, 48>> -> <<78, 84, 65, 61>>
      [] payload = <<88>> -> <<87, 65, 61, 61>>
      [] payload = <<255>> -> <<47, 119, 61, 61>>
      [] payload = <<195, 169>> -> <<119, 54, 107, 61>>

\* C11: a cover or artwork event with a non-empty payload sets the artwork
\* to the base64 text of exactly that payload, whatever it was before; one
\* with an empty payload clears it, and a snapshot taken then has
\* artwork_base64 null.
C11_Artwork ==
    (EventDone /\ Topic \in {"cover", "artwork"}) =>
        /\ metadata = [pre EXCEPT !.artwork_base64 =
                         IF msg.payload = <<>> THEN None
                         ELSE Some(ExpectedBase64(msg.payload))]
        /\ Answered => snapshot.json.artwork_base64 = metadata.artwork_base64

\* An empty cover after a non-empty one, and a snapshot of the result.
C11_Witness ==
    /\ EventDone
    /\ Topic = "cover"
    /\ msg.payload = <<>>
    /\ pre.artwork_base64 = Some(<<78, 81, 61, 61>>)
    /\ Answered
    /\ snapshot.json.artwork_base64 = None

\* C13: a raw topic that does not start with the prefix is used unchanged
\* as the relative topic: the raw topic "title" has the effect of the title
\* action, the same as the topic under the prefix has.
C13_RawTopicFallback ==
    (EventDone /\ msg.topic = "title") =>
        /\ metadata = Applied(pre, [topic |-> topic_prefix \o "/title",
                                    payload |-> msg.payload])
        /\ msg.payload = <<88>> => metadata = [pre EXCEPT !.title = <<88>>]
        /\ msg.payload = <<195, 169>> => metadata = [pre EXCEPT !.title = <<233>>]

C13_Witness ==
    /\ EventDone
    /\ msg.topic = "title"
    /\ msg.payload = <<88>>
    /\ pre.title = <<53>>
    /\ metadata.title = <<88>>

\* C14: a pause event sets is_playing false and player_state "paused" and
\* changes no other field: title, artist, album and artwork stay.
C14_PauseKeepsTrack ==
    (EventDone /\ Topic = "pause") =>
        metadata = [pre EXCEPT !.is_playing = FALSE, !.player_state = "paused"]

C14_Witness ==
    /\ EventDone
    /\ Topic = "pause"
    /\ pre.artwork_base64 = Some(<<78, 81, 61, 61>>)
    /\ metadata.artwork_base64 = pre.artwork_base64
    /\ metadata.player_state = "paused"

\* C18: between events, whatever events came before (malformed and
\* unrecognized ones included), player_state is "stopped", "playing" or
\* "paused", and is_playing is true exactly when it is "playing".
C18_BoundaryStateConsistent ==
    pc = 0 =>
        /\ metadata.player_state \in {"stopped", "playing", "paused"}
        /\ metadata.is_playing = (metadata.player_state = "playing")

\* A malformed event applied to a playing state.
C18_Witness ==
    /\ EventDone
    /\ ErrorRecords(log) = 1
    /\ metadata.player_state = "playing"
    /\ metadata.is_playing

\* C19: an event changes the state only if its raw topic is the prefix,
\* "/" and a name of the action table, or is exactly such a name.
C19_OnlyExactTopicsMutate ==
    (EventDone /\ metadata # pre) =>
        msg.topic \in ({topic_prefix \o "/" \o t : t \in ActionTopics} \cup ActionTopics)

-----------------------------------------------------------------------------
\* C12: from the default state the events title "Song A", artist "Band B"
\* and play_start (or play_resume) give a snapshot with that title and
\* artist, is_playing true and player_state "playing"; a play_end after
\* them gives title "", artist "", is_playing false and player_state
\* "stopped".

SongThenPlay ==
    /\ Len(delivered) >= 3
    /\ delivered[1] = [topic |-> Under("title"), payload |-> SongA]
    /\ delivered[2] = [topic |-> Under("artist"), payload |-> BandB]
    /\ delivered[3].topic \in {Under("play_start"), Under("play_resume")}

C12_EndToEnd ==
    (EventDone /\ Answered /\ SongThenPlay) =>
        /\ Len(delivered) = 3 =>
              /\ snapshot.json.title = SongA
              /\ snapshot.json.artist = BandB
              /\ snapshot.json.is_playing = TRUE
              /\ snapshot.json.player_state = "playing"
        /\ (Len(delivered) = 4 /\ delivered[4].topic = Under("play_end")) =>
              /\ snapshot.json.title = <<>>
              /\ snapshot.json.artist = <<>>
              /\ snapshot.json.is_playing = FALSE
              /\ snapshot.json.player_state = "stopped"

C12_Witness ==
    /\ EventDone /\ Answered /\ SongThenPlay
    /\ Len(delivered) = 4
    /\ delivered[3].topic = Under("play_start")
    /\ delivered[4].topic = Under("play_end")
    /\ snapshot.json.title = <<>>
    /\ snapshot.json.player_state = "stopped"

-----------------------------------------------------------------------------
\* C15: get_metadata and health change no field of the state; a /metadata
\* response is the state at the instant of the call: after an event has been
\* applied in full it is that event's resulting state, and before any event
\* it is the defaults (empty strings, no artwork, is_playing false,
\* player_state "stopped", volume 0).

C15_QueryReadOnly ==
    /\ [][snapshot'.status = 200 => UNCHANGED coreState]_vars
    /\ [](Answered => snapshot.json = metadata)
    /\ [](Answered /\ EventDone => snapshot.json = Applied(pre, msg))
    /\ [](Answered /\ nEvents = 0 =>
             snapshot.json = [title |-> <<>>, artist |-> <<>>, album |-> <<>>,
                              genre |-> <<>>, artwork_base64 |-> None,
                              is_playing |-> FALSE, player_state |-> "stopped",
                              volume |-> 0, client_name |-> <<>>])

C15_Witness ==
    /\ Answered /\ EventDone
    /\ snapshot.json # DefaultMetadata
    /\ snapshot.json = Applied(pre, msg)

-----------------------------------------------------------------------------
\* C16: on_connect with any return code and on_disconnect leave every field
\* of the playback state as it was; a disconnect while playing resets
\* neither is_playing, player_state nor the track fields.

C16_LifecycleKeepsState ==
    [][mqtt' # mqtt => metadata' = metadata]_vars

C16_Witness ==
    /\ mqtt = "disconnected"
    /\ metadata.is_playing /\ metadata.player_state = "playing"
    /\ metadata.title = SongA

-----------------------------------------------------------------------------
\* C17: every /metadata and /health query is answered in the end, whatever
\* the MQTT thread is doing: waiting for a message, in the middle of
\* on_message, or ended after connect failed in run_mqtt_client, when the
\* answers are the default snapshot.

C17_QueriesAnswered ==
    /\ (request = "/metadata") ~> Answered
    /\ (request = "/health") ~> (snapshot.status = 200 /\ snapshot.route = "/health")
    /\ [](mqtt = "dead" /\ Answered => snapshot.json = DefaultMetadata)

C17_Witness ==
    /\ mqtt = "dead"
    /\ Answered
    /\ request = ""

-----------------------------------------------------------------------------
\* C20: when the request raises a request error or the response status is
\* not 200, _get_metadata returns the configured defaults (default_title or
\* "Not Playing", default_artist, default_album) with is_playing false and
\* no artwork_data; when the status is 200 and the body a JSON object,
\* artwork_base64 goes before artwork_url and the title is the server's
\* whenever the response carries one, the empty title included.

ConfiguredDefaults(settings) ==
    [title |-> IF "default_title" \in DOMAIN settings
               THEN settings.default_title ELSE "Not Playing",
     artist |-> IF "default_artist" \in DOMAIN settings
                THEN settings.default_artist ELSE "",
     album |-> IF "default_album" \in DOMAIN settings
               THEN settings.default_album ELSE "",
     artwork_data |-> None,
     is_playing |-> FALSE]

RequestFailed(response) ==
    \/ response.raised \in {"RequestException", "ConnectionError", "Timeout"}
    \/ response.raised = "" /\ response.status_code # 200

C20_PluginFallsBack ==
    plugin.called =>
        LET response == plugin.response
            data == response.json.v
        IN  /\ RequestFailed(response) =>
                  plugin.returned = Ok(ConfiguredDefaults(plugin.settings))
            /\ (response.raised = "" /\ response.status_code = 200
                  /\ response.json.exc = "") =>
                  /\ plugin.returned.exc = ""
                  /\ "title" \in DOMAIN data =>
                        plugin.returned.v.title = data.title
                  /\ ("artwork_base64" \in DOMAIN data
                        /\ data.artwork_base64 \notin {None, Some("")}) =>
                        plugin.returned.v.artwork_data =
                            Some("data:image/jpeg;base64," \o data.artwork_base64[1])

C20_Witness ==
    /\ plugin.called
    /\ plugin.response.raised = "ConnectionError"
    /\ "default_title" \notin DOMAIN plugin.settings
    /\ "default_artist" \in DOMAIN plugin.settings
    /\ plugin.returned.exc = ""
    /\ plugin.returned.v.title = "Not Playing"

====
